---- MODULE Spec2Model ----
(***************************************************************************)
(* Model of the data.gov.in client: the TTL/LRU response cache (cache.py), *)
(* the sliding-window rate limiter and the retrying request dispatcher     *)
(* (api_client.py).  Time is a discrete clock `now`; time.time() reads it. *)
(***************************************************************************)
EXTENDS Integers, Sequences, FiniteSets, TLC

VARIABLES
    now,        \* the wall clock read by time.time()
    cache,      \* the Cache object: max_size, default_ttl, _cache, _hits, _misses
    lastOp,     \* history: the last Cache call: its name, key, result and effect
    recency,    \* history: the stored keys in order of their last access, oldest first
    written,    \* history: for each key, the last set not undone by an eviction or a clear
    made,       \* history: the latest _make_key calls, their arguments and results
    lock,       \* Cache._lock: the thread that holds it, or None
    call,       \* per thread: the Cache method it is in, its arguments and its result
    done,       \* history: per key the value of the set that took the lock last, and
                \* the gets completed since the last clear
    limiter,    \* the RateLimiter object: max_calls, period, calls
    pc,         \* per thread: where it stands
    tnow,       \* per thread: wait_if_needed's local `now`
    tcalls,     \* per thread: the list the comprehension of wait_if_needed has built
    wake,       \* per thread: when its time.sleep ends
    admitted,   \* history: the timestamp appended by every wait_if_needed that returned
    config,     \* the client's Config
    fetch,      \* per thread: the locals of its get_resource / _make_request call
    hist        \* history, per thread: what its latest get_resource call did

lockVars == <<lock, call, done>>
cacheVars == <<cache, lastOp, recency, written, made, lockVars>>
limiterVars == <<limiter, pc, tnow, tcalls, wake, admitted>>
clientVars == <<config, fetch, hist>>
vars == <<now, cache, lastOp, recency, written, made, lock, call, done, limiter, pc, tnow, tcalls, wake, admitted,
          config, fetch, hist>>

----------------------------------------------------------------------------
(* Bounds of the model *)

MaxTime == 1        \* the clock runs over 0..MaxTime
MaxCap == 2         \* max_size ranges over 0..MaxCap
MaxTtl == 1         \* a TTL is 0 or MaxTtl
MaxLookups == 1     \* Cache.get is called while hits + misses < MaxLookups
MaxClock == 3       \* the clock of the rate limiter runs over 0..MaxClock
MaxCalls == 2       \* max_calls ranges over 1..MaxCalls
MaxPeriod == 2      \* period ranges over 1..MaxPeriod
MaxAdmitted == 4    \* wait_if_needed is entered while fewer calls than this were made
MaxRetries == 2     \* max_retries ranges over 0..MaxRetries
MaxFetches == 2     \* get_resource is called while fewer calls than this got past
MaxOps == 3          \* the threads call Cache methods while fewer than MaxOps calls were made
MaxDelay == 2        \* retry_delay ranges over 1..MaxDelay
MaxFactor == 2       \* backoff_factor ranges over 0..MaxFactor
MaxBackoffRetries == 3   \* max_retries ranges over 0..MaxBackoffRetries in SpecBackoff
MaxGets == 3         \* in SpecStats, Cache.get is called while fewer gets were made
                     \* since the last clear

None == "None"      \* Python's None
Keys == {"k1", "k2", "k3"}


MTKeys == {"k1", "k2"}                 \* the keys used where two are enough
Threads == {"t1", "t2"}
Resources == {"r1", "r2"}
Payloads == {"p1", None}               \* decoded response bodies; JSON null is None
NoLimit == 0                           \* get_resource's limit left at None; 0 is as falsy
LimitArgs == {NoLimit, 1, 3}           \* the limit argument of get_resource
OffsetArgs == {0, -1}                  \* the offset argument
NegativeLimits == {-1}                 \* a limit below 0
FilterArgs == {None, "f1"}             \* the filters argument: None or a mapping
\* the calls of get_resource that are made: every resource with every limit, one
\* call with filters, one with a negative offset and one with a negative limit
Requests ==
    (Resources \X {None} \X {0} \X LimitArgs)
        \cup {r \in {"r1"} \X FilterArgs \X OffsetArgs \X {1} : r[2] = None \/ r[3] = 0}
        \cup ({"r1"} \X {None} \X {0} \X NegativeLimits)

\* the calls made where only the retry loop is looked at
BackoffRequests == Resources \X {None} \X {0} \X {1}
Values == {"v1", "v2"}
NoTtl == -1         \* the ttl argument of Cache.set left at its default, None
Ttls == {0, MaxTtl}
TtlArgs == Ttls \cup {NoTtl}

----------------------------------------------------------------------------
(* cache.py *)

\* CacheEntry.__init__: expiry = time.time() + ttl
CacheEntry(key, value, ttl, t) == [key |-> key, value |-> value, expiry |-> t + ttl]

\* CacheEntry.is_expired: time.time() > self.expiry
is_expired(entry, t) == t > entry.expiry

\* Cache.__init__
NewCache(max_size, default_ttl) ==
    [max_size |-> max_size, default_ttl |-> default_ttl,
     entries |-> <<>>, hits |-> 0, misses |-> 0]

\* key in self._cache
HasKey(entries, key) == \E i \in 1..Len(entries) : entries[i].key = key

\* self._cache[key]
Lookup(entries, key) == entries[CHOOSE i \in 1..Len(entries) : entries[i].key = key]

\* del self._cache[key]
DelKey(entries, key) == SelectSeq(entries, LAMBDA e : e.key # key)

\* self._cache.move_to_end(key)
move_to_end(entries, key) == Append(DelKey(entries, key), Lookup(entries, key))

\* popitem(last=True): the most recently used entry goes instead
popitem_last(entries) == SubSeq(entries, 1, Len(entries) - 1)

\* self._cache.popitem(last=False) on a non-empty OrderedDict
popitem_first(entries) == Tail(entries)

\* len(self._cache) > self.max_size: one entry too late
AtCapacity_late(c) == Len(c.entries) > c.max_size

\* len(self._cache) >= self.max_size
AtCapacity(c) == Len(c.entries) >= c.max_size

\* the TTL argument ignored
ttl_always_default(ttl, default_ttl) == default_ttl

\* ttl = ttl or self.default_ttl  (None and 0 are both falsy)
ttl_or_default(ttl, default_ttl) == IF ttl = NoTtl \/ ttl = 0 THEN default_ttl ELSE ttl

\* a get that removes an expired entry without counting the lookup
Cache_get_expired_uncounted(c, key, t) ==
    IF HasKey(c.entries, key)
    THEN IF is_expired(Lookup(c.entries, key), t)
         THEN [cache |-> [c EXCEPT !.entries = DelKey(c.entries, key)],
               result |-> None]
         ELSE [cache |-> [c EXCEPT !.entries = move_to_end(c.entries, key),
                                   !.hits = c.hits + 1],
               result |-> Lookup(c.entries, key).value]
    ELSE [cache |-> [c EXCEPT !.misses = c.misses + 1], result |-> None]

\* Cache.get: the cache after the call and the value returned
Cache_get(c, key, t) ==
    IF HasKey(c.entries, key)
    THEN IF is_expired(Lookup(c.entries, key), t)
         THEN [cache |-> [c EXCEPT !.entries = DelKey(c.entries, key),
                                   !.misses = c.misses + 1],
               result |-> None]
         ELSE [cache |-> [c EXCEPT !.entries = move_to_end(c.entries, key),
                                   !.hits = c.hits + 1],
               result |-> Lookup(c.entries, key).value]
    ELSE [cache |-> [c EXCEPT !.misses = c.misses + 1], result |-> None]

\* a set that tests the capacity before it looks for the key, and overwrites a
\* stored key in place
Cache_set_capacity_first(c, key, value, ttl, t) ==
    LET entry == CacheEntry(key, value, ttl_or_default(ttl, c.default_ttl), t)
        room == IF AtCapacity(c) /\ Len(c.entries) > 0
                THEN popitem_first(c.entries) ELSE c.entries
    IN
    IF AtCapacity(c) /\ Len(c.entries) = 0
    THEN [cache |-> c, raised |-> "KeyError"]
    ELSE [cache |-> [c EXCEPT !.entries = Append(DelKey(room, key), entry)],
          raised |-> None]

\* a set that first drops every expired entry
Cache_set_sweeping(c, key, value, ttl, t) ==
    LET entry == CacheEntry(key, value, ttl_or_default(ttl, c.default_ttl), t)
        kept == SelectSeq(c.entries, LAMBDA e : ~is_expired(e, t))
    IN
    IF HasKey(kept, key)
    THEN [cache |-> [c EXCEPT !.entries = Append(DelKey(kept, key), entry)],
          raised |-> None]
    ELSE IF Len(kept) >= c.max_size
         THEN IF Len(kept) = 0
              THEN [cache |-> c, raised |-> "KeyError"]
              ELSE [cache |-> [c EXCEPT !.entries = Append(popitem_first(kept), entry)],
                    raised |-> None]
         ELSE [cache |-> [c EXCEPT !.entries = Append(kept, entry)],
               raised |-> None]

\* Cache.set: the cache after the call and the exception raised, if any.
\* popitem on an empty OrderedDict raises KeyError before anything is stored.
Cache_set(c, key, value, ttl, t) ==
    LET entry == CacheEntry(key, value, ttl_or_default(ttl, c.default_ttl), t) IN
    IF HasKey(c.entries, key)
    THEN [cache |-> [c EXCEPT !.entries = Append(DelKey(c.entries, key), entry)],
          raised |-> None]
    ELSE IF AtCapacity(c)
         THEN IF Len(c.entries) = 0
              THEN [cache |-> c, raised |-> "KeyError"]
              ELSE [cache |-> [c EXCEPT !.entries =
                                   Append(popitem_first(c.entries), entry)],
                    raised |-> None]
         ELSE [cache |-> [c EXCEPT !.entries = Append(c.entries, entry)],
               raised |-> None]

\* a clear that keeps the counters
Cache_clear_entries_only(c) == [c EXCEPT !.entries = <<>>]

\* Cache.clear
Cache_clear(c) == [c EXCEPT !.entries = <<>>, !.hits = 0, !.misses = 0]

\* the percentage cut after two decimals instead of rounded
hit_rate_truncated(hits, misses) ==
    LET total == hits + misses IN
    IF total > 0 THEN (hits * 10000) \div total ELSE 0

\* hit_rate = (hits / total * 100) if total > 0 else 0, as f"{hit_rate:.2f}%" shows
\* it: the number of hundredths of a percent, rounded to the nearest
hit_rate(hits, misses) ==
    LET total == hits + misses IN
    IF total > 0 THEN (hits * 20000 + total) \div (2 * total) ELSE 0

\* Cache.stats
Cache_stats(c) ==
    [size |-> Len(c.entries), max_size |-> c.max_size, hits |-> c.hits,
     misses |-> c.misses, hit_rate |-> hit_rate(c.hits, c.misses)]

----------------------------------------------------------------------------
(* History kept beside the cache, to state what a call did *)

\* The arguments of Cache._make_key: a resource id and keyword parameters. A
\* parameter value is a Python int, a string, or a mapping from strings to
\* strings (the filters); a mapping is held as its items in insertion order.
IntValue(text) == [type |-> "int", text |-> text, items |-> <<>>]
StrValue(text) == [type |-> "str", text |-> text, items |-> <<>>]
DictValue(items) == [type |-> "dict", text |-> "", items |-> items]

ParamNames == {"a", "b"}
ParamValues ==
    {IntValue("1"), IntValue("2"), StrValue("1"),
     DictValue(<<<<"x", "1">>, <<"y", "2">>>>), DictValue(<<<<"y", "2">>, <<"x", "1">>>>),
     DictValue(<<<<"x", "2">>, <<"y", "2">>>>)}

\* the values passed where two parameters are
PairValues ==
    {IntValue("1"), DictValue(<<<<"x", "1">>, <<"y", "2">>>>),
     DictValue(<<<<"y", "2">>, <<"x", "1">>>>)}

\* **kwargs: no parameter, one, or two in either order of insertion
Kwargs ==
    {<<>>}
        \cup {<<<<n, v>>>> : n \in ParamNames, v \in ParamValues}
        \cup {<<<<n[1], v[1]>>, <<n[2], v[2]>>>> :
                 n \in {m \in ParamNames \X ParamNames : m[1] # m[2]},
                 v \in PairValues \X PairValues}

\* the order of the strings used as names
Alphabet == <<"a", "b", "x", "y">>
Rank(name) == CHOOSE i \in 1..Len(Alphabet) : Alphabet[i] = name

\* the items left as they were inserted
unsorted_items(items) == items

\* sorted(kwargs.items()), and the items of a dict under sort_keys=True: by name
RECURSIVE sorted_items(_)
sorted_items(items) ==
    IF items = <<>> THEN <<>>
    ELSE LET first == CHOOSE i \in 1..Len(items) :
                         \A j \in 1..Len(items) : Rank(items[i][1]) <= Rank(items[j][1])
         IN <<items[first]>>
                \o sorted_items(SelectSeq(items, LAMBDA it : it # items[first]))

\* ", ".join(texts)
RECURSIVE Join(_)
Join(texts) ==
    IF texts = <<>> THEN <<>>
    ELSE IF Len(texts) = 1 THEN texts[1]
    ELSE texts[1] \o <<", ">> \o Join(Tail(texts))

\* json.dumps of a string
dumps_str(text) == <<"\"", text, "\"">>

\* json.dumps(value, sort_keys=True): the text as a sequence of pieces
dumps(value) ==
    CASE value.type = "int" -> <<value.text>>
      [] value.type = "str" -> dumps_str(value.text)
      [] value.type = "dict" ->
            LET items == sorted_items(value.items) IN
            <<"{">> \o Join([i \in 1..Len(items) |->
                               dumps_str(items[i][1]) \o <<": ">> \o dumps_str(items[i][2])])
                    \o <<"}">>

\* json.dumps({"args": args, "kwargs": sorted(kwargs.items())}, sort_keys=True)
key_str(resource_id, kwargs) ==
    LET items == sorted_items(kwargs) IN
    <<"{">> \o dumps_str("args") \o <<": [">> \o dumps_str(resource_id) \o <<"], ">>
            \o dumps_str("kwargs") \o <<": [">>
            \o Join([i \in 1..Len(items) |->
                       <<"[">> \o dumps_str(items[i][1]) \o <<", ">> \o dumps(items[i][2])
                               \o <<"]">>])
            \o <<"]}">>

\* hashlib.sha256(text).hexdigest(): one digest per text; two texts with the same
\* digest are not modelled
sha256(text) == [sha256 |-> text]

\* Cache._make_key(resource_id, **kwargs)
Cache_make_key(resource_id, kwargs) == sha256(key_str(resource_id, kwargs))

\* made: the last two _make_key calls, oldest first
NoKeys == <<>>

KeysOf(entries) == {entries[i].key : i \in 1..Len(entries)}

\* the keys of the entries that have not expired at time t
Unexpired(entries, t) ==
    {entries[i].key : i \in {j \in 1..Len(entries) : ~is_expired(entries[j], t)}}

\* `key` was accessed just now: it becomes the most recent
Touch(rec, key) == Append(SelectSeq(rec, LAMBDA k : k # key), key)

\* the TTL a caller of set(key, value, ttl) asks for: ttl, or the default when
\* ttl is left out
RequestedTtl(c, ttl) == IF ttl = NoTtl THEN c.default_ttl ELSE ttl

\* the history forgets the keys that are no longer stored
Forget(rec, entries) == SelectSeq(rec, LAMBDA k : k \in KeysOf(entries))

\* the stored key whose last access (a set, or a get that hit) is the oldest
OldestAccessed(rec) == IF rec = <<>> THEN None ELSE Head(rec)

\* lastOp.zeroAt: the time of the call when it was a set asking for a TTL of 0
\* (ttl = 0, or ttl left out with default_ttl = 0), else -1
\* lastOp.prevHit: the key that the call just before this one read with a hit
\* lastOp.report: the dictionary a stats call returned
\* lastOp.fresh: the keys among lastOp.evicted whose entries had not expired
NoReport == [size |-> 0, max_size |-> 0, hits |-> 0, misses |-> 0, hit_rate |-> 0]
NoOp == [op |-> "none", key |-> None, result |-> None, raised |-> None,
         evicted |-> {}, fresh |-> {}, zeroAt |-> -1, prevHit |-> None,
         report |-> NoReport]

\* written[key]: "stored" with the value and the time at which the TTL asked for
\* ends, when a set of the key completed and no eviction or clear removed the key
\* since; "lapsed" once that time is past; "absent" otherwise
NotWritten == [state |-> "absent", value |-> None, until |-> 0]
Lapsed == [state |-> "lapsed", value |-> None, until |-> 0]

\* the history at time t: what was stored until a time before t has lapsed
Lapse(w, t) ==
    [k \in DOMAIN w |-> IF w[k].state = "stored" /\ w[k].until < t THEN Lapsed ELSE w[k]]
NeverWritten == [k \in Keys |-> NotWritten]

\* the history after set(key, value, ttl) at time t took the cache from c to r.cache
WrittenAfterSet(w, c, r, key, value, ttl, t) ==
    [k \in DOMAIN w |->
        IF k = key /\ r.raised = None
        THEN [state |-> "stored", value |-> value, until |-> t + RequestedTtl(c, ttl)]
        ELSE IF k \in KeysOf(c.entries) \ KeysOf(r.cache.entries)
        THEN NotWritten
        ELSE w[k]]

\* no thread is in a Cache method
NoCall == [name |-> "none", key |-> None, value |-> None, ttl |-> NoTtl,
           result |-> None, raised |-> None, report |-> NoReport,
           before |-> NewCache(0, 0), at |-> 0]
NothingDoneYet == [lastSet |-> [k \in Keys |-> None], gets |-> 0, calls |-> 0]

InitLockVars ==
    /\ lock = None
    /\ call = [t \in Threads |-> NoCall]
    /\ done = NothingDoneYet

\* the key the last call read with a hit, if it was such a get
JustHit == IF lastOp.op = "get" /\ HasKey(cache.entries, lastOp.key)
           THEN lastOp.key ELSE None

----------------------------------------------------------------------------
(* api_client.py: RateLimiter *)

\* RateLimiter.__init__
NewLimiter(max_calls, period) ==
    [max_calls |-> max_calls, period |-> period, calls |-> <<>>]

\* a window that keeps the timestamp that is exactly `period` old
InWindow_inclusive(calls, t, period) ==
    SelectSeq(calls, LAMBDA call_time : t - call_time <= period)

\* [call_time for call_time in self.calls if now - call_time < self.period]
InWindow(calls, t, period) == SelectSeq(calls, LAMBDA call_time : t - call_time < period)

\* a limit that is reached only above max_calls timestamps
LimitReached_above(l) == Len(l.calls) > l.max_calls

\* len(self.calls) >= self.max_calls
LimitReached(l) == Len(l.calls) >= l.max_calls

\* sleep_time = self.period - (now - self.calls[0])
sleep_time(l, t) == l.period - (t - l.calls[1])

Idle == [t \in Threads |-> "idle"]

\* the locals of a get_resource call; none is in progress
NoFetch == [active |-> FALSE, resource_id |-> None, params |-> <<>>, attempt |-> 0,
            last_exception |-> None]

\* what a get_resource call did: its arguments, what each HTTP GET ended in and
\* the exception its handling raised, the wait_if_needed calls, the backoff sleeps,
\* the cache lookups, and how the call ended
NoHist == [call |-> <<>>, attempts |-> <<>>, waits |-> 0, sleeps |-> <<>>,
           lookups |-> 0, result |-> [kind |-> "none", value |-> None]]

\* Config(): the defaults; no client call is in progress
DefaultConfig ==
    [api_key |-> None, cache_enabled |-> TRUE, max_retries |-> 3, retry_delay |-> 1,
     backoff_factor |-> 2, default_limit |-> 10, max_limit |-> 100]

InitClientVars ==
    /\ config = DefaultConfig
    /\ fetch = [t \in Threads |-> NoFetch]
    /\ hist = [t \in Threads |-> NoHist]

InitLimiterVars ==
    /\ pc = Idle
    /\ tnow = [t \in Threads |-> 0]
    /\ tcalls = [t \in Threads |-> <<>>]
    /\ wake = [t \in Threads |-> 0]
    /\ admitted = <<>>

Inside == {t \in Threads : pc[t] \in {"filter", "prune", "check", "compute", "sleep",
                                         "reset", "append"}}

\* wait_if_needed begins:  now = time.time()
Enter(t) ==
    /\ Len(admitted) + Cardinality(Inside) < MaxAdmitted
    /\ tnow' = [tnow EXCEPT ![t] = now]
    /\ pc' = [pc EXCEPT ![t] = "filter"]
    /\ hist' = [hist EXCEPT ![t].waits = IF fetch[t].active THEN @ + 1 ELSE @]
    /\ UNCHANGED <<now, cacheVars, limiter, tcalls, wake, admitted, config, fetch>>

\* a caller calls limiter.wait_if_needed()
CallWaitIfNeeded(t) ==
    /\ pc[t] = "idle"
    /\ Enter(t)

\* an exception leaves _make_request (and get_resource)
Raise(t, exception) ==
    /\ fetch' = [fetch EXCEPT ![t] = NoFetch]
    /\ hist' = [hist EXCEPT ![t].result = [kind |-> "raise", value |-> exception]]

\* the list comprehension over self.calls is evaluated
Filter(t) ==
    /\ pc[t] = "filter"
    /\ tcalls' = [tcalls EXCEPT ![t] = InWindow(limiter.calls, tnow[t], limiter.period)]
    /\ pc' = [pc EXCEPT ![t] = "prune"]
    /\ UNCHANGED <<now, cacheVars, limiter, tnow, wake, admitted, clientVars>>

\* self.calls = <the list built>
Prune(t) ==
    /\ pc[t] = "prune"
    /\ limiter' = [limiter EXCEPT !.calls = tcalls[t]]
    /\ tcalls' = [tcalls EXCEPT ![t] = <<>>]
    /\ pc' = [pc EXCEPT ![t] = "check"]
    /\ UNCHANGED <<now, cacheVars, tnow, wake, admitted, clientVars>>

\* if len(self.calls) >= self.max_calls
Check(t) ==
    /\ pc[t] = "check"
    /\ pc' = [pc EXCEPT ![t] = IF LimitReached(limiter) THEN "compute" ELSE "append"]
    /\ UNCHANGED <<now, cacheVars, limiter, tnow, tcalls, wake, admitted, clientVars>>

\* sleep_time = ...; if sleep_time > 0: time.sleep(sleep_time) begins.
\* self.calls[0] raises IndexError when the list is empty by now.
Compute(t) ==
    /\ pc[t] = "compute"
    /\ IF limiter.calls = <<>>
       THEN /\ pc' = [pc EXCEPT ![t] = "idle"]
            /\ wake' = wake
            /\ IF fetch[t].active THEN Raise(t, "IndexError")
                                  ELSE UNCHANGED <<fetch, hist>>
       ELSE IF sleep_time(limiter, tnow[t]) > 0
            THEN /\ pc' = [pc EXCEPT ![t] = "sleep"]
                 /\ wake' = [wake EXCEPT ![t] = now + sleep_time(limiter, tnow[t])]
                 /\ UNCHANGED <<fetch, hist>>
            ELSE /\ pc' = [pc EXCEPT ![t] = "append"]
                 /\ wake' = wake
                 /\ UNCHANGED <<fetch, hist>>
    /\ UNCHANGED <<now, cacheVars, limiter, tnow, tcalls, admitted, config>>

\* time.sleep returns, not before sleep_time has passed
Wake(t) ==
    /\ pc[t] = "sleep"
    /\ now >= wake[t]
    /\ pc' = [pc EXCEPT ![t] = "reset"]
    /\ wake' = [wake EXCEPT ![t] = 0]
    /\ UNCHANGED <<now, cacheVars, limiter, tnow, tcalls, admitted, clientVars>>

\* a wait after which the recorded timestamps are kept
Reset_keep(t) ==
    /\ pc[t] = "reset"
    /\ limiter' = limiter
    /\ pc' = [pc EXCEPT ![t] = "append"]
    /\ UNCHANGED <<now, cacheVars, tnow, tcalls, wake, admitted, clientVars>>

\* self.calls = []
Reset(t) ==
    /\ pc[t] = "reset"
    /\ limiter' = [limiter EXCEPT !.calls = <<>>]
    /\ pc' = [pc EXCEPT ![t] = "append"]
    /\ UNCHANGED <<now, cacheVars, tnow, tcalls, wake, admitted, clientVars>>

\* self.calls.append(time.time()); wait_if_needed returns
AppendCall(t) ==
    /\ pc[t] = "append"
    /\ limiter' = [limiter EXCEPT !.calls = Append(limiter.calls, now)]
    /\ admitted' = Append(admitted, now)
    /\ pc' = [pc EXCEPT ![t] = IF fetch[t].active THEN "dispatch" ELSE "idle"]
    /\ tnow' = [tnow EXCEPT ![t] = 0]
    /\ UNCHANGED <<now, cacheVars, tcalls, wake, clientVars>>

wait_if_needed(t) ==
    \/ Filter(t)
    \/ Prune(t)
    \/ Check(t)
    \/ Compute(t)
    \/ Wake(t)
    \/ Reset(t)
    \/ AppendCall(t)

\* time passes
TickLimiter ==
    /\ now < MaxClock
    /\ now' = now + 1
    /\ UNCHANGED <<cacheVars, limiterVars, clientVars>>

InitLimiter ==
    /\ now = 0
    /\ cache = NewCache(0, 0)
    /\ lastOp = NoOp
    /\ recency = <<>>
    /\ written = NeverWritten
    /\ made = NoKeys
    /\ InitLockVars
    /\ \E m \in 1..MaxCalls, p \in 1..MaxPeriod : limiter = NewLimiter(m, p)
    /\ InitLimiterVars
    /\ InitClientVars

\* one caller
NextLimiter == TickLimiter \/ CallWaitIfNeeded("t1") \/ wait_if_needed("t1")

SpecLimiter == InitLimiter /\ [][NextLimiter]_vars

\* several threads share the limiter
NextLimiterMT ==
    \/ TickLimiter
    \/ \E t \in Threads : CallWaitIfNeeded(t) \/ wait_if_needed(t)

SpecLimiterMT == InitLimiter /\ [][NextLimiterMT]_vars

----------------------------------------------------------------------------
(* api_client.py: DataGovInClient *)

\* what one HTTP GET can end in: a 2xx response whose body decodes to a payload,
\* a response with status 404, 429 or another status >= 400, httpx.TimeoutException,
\* httpx.NetworkError, or any other exception (raise_for_status on another status,
\* a body that is no JSON, another httpx error)
Outcomes ==
    {[kind |-> "ok", payload |-> p] : p \in Payloads}
    \cup {[kind |-> k, payload |-> None] :
             k \in {"s404", "s429", "s4xx", "timeout", "network", "other"}}

\* limit = limit or self.config.default_limit
limit_or_default(limit, cfg) == IF limit = NoLimit THEN cfg.default_limit ELSE limit

\* the checks without the one for the limit
Precheck_nolimit(cfg, limit) ==
    IF cfg.api_key = None THEN "APIKeyMissingError" ELSE None

\* the checks without the one for the API key
Precheck_nokey(cfg, limit) ==
    IF limit_or_default(limit, cfg) > cfg.max_limit THEN "InvalidParameterError"
    ELSE None

\* the checks get_resource and _make_request make before anything else, in order:
\* the exception raised, or None
Precheck(cfg, limit) ==
    IF limit_or_default(limit, cfg) > cfg.max_limit THEN "InvalidParameterError"
    ELSE IF cfg.api_key = None THEN "APIKeyMissingError"
    ELSE None

\* params of the request: offset, limit, filters if given, api-key, format
Params(cfg, filters, offset, limit) ==
    [offset |-> offset, limit |-> limit_or_default(limit, cfg), filters |-> filters,
     api_key |-> cfg.api_key, format |-> "json"]

\* self.cache._make_key(resource_id, **params): one key per resource id and
\* parameter mapping
make_key(resource_id, params) == <<resource_id, params>>

\* use_cache and self.cache
UseCache(cfg) == cfg.cache_enabled

\* a store made before the status of the response is looked at
StoreReached_always(o, cfg) == UseCache(cfg)

\* self.cache.set(cache_key, data) is reached: no status check raised, the body
\* was decoded, and `use_cache and self.cache` holds
StoreReached(o, cfg) == o.kind = "ok" /\ UseCache(cfg)

\* the status checks with the test for 400 and above made before the test for 429
AttemptException_order(o, setRaised) ==
    CASE o.kind = "s404" -> "ResourceNotFoundError"
      [] o.kind = "s429" -> "APIError"
      [] o.kind = "s4xx" -> "APIError"
      [] o.kind = "timeout" -> "TimeoutException"
      [] o.kind = "network" -> "httpx.NetworkError"
      [] o.kind = "other" -> "Exception"
      [] o.kind = "ok" -> setRaised

\* the exception raised inside the try block of one attempt, or None: the status
\* checks, the transport's exception, or what cache.set raised after a success
AttemptException(o, setRaised) ==
    CASE o.kind = "s404" -> "ResourceNotFoundError"
      [] o.kind = "s429" -> "RateLimitError"
      [] o.kind = "s4xx" -> "APIError"
      [] o.kind = "timeout" -> "TimeoutException"
      [] o.kind = "network" -> "httpx.NetworkError"
      [] o.kind = "other" -> "Exception"
      [] o.kind = "ok" -> setRaised

\* the except clause without RateLimitError
Reraised_no429(exception) ==
    exception \in {"APIError", "ResourceNotFoundError"}

\* except (APIError, RateLimitError, ResourceNotFoundError): raise
Reraised(exception) ==
    exception \in {"APIError", "RateLimitError", "ResourceNotFoundError"}

\* every fall-through recorded as the unexpected-error case
last_exception_generic(exception) == "APIError"

\* the except clauses that fall through to the next attempt set last_exception
last_exception_of(exception) ==
    IF exception \in {"TimeoutException", "httpx.NetworkError"}
    THEN "NetworkError" ELSE "APIError"

\* a loop that goes round once more
RetriesLeft_one_more(attempt, cfg) == attempt <= cfg.max_retries

\* for attempt in range(self.config.max_retries + 1); if attempt <
\* self.config.max_retries: another pass of the loop follows this one
RetriesLeft(attempt, cfg) == attempt < cfg.max_retries

\* a ** b
Pow(a, b) == LET pw[i \in 0..b] == IF i = 0 THEN 1 ELSE a * pw[i - 1] IN pw[b]

\* a delay that grows by retry_delay with each attempt
backoff_time_linear(cfg, attempt) == cfg.retry_delay * (attempt + 1)

\* sleep_time = self.config.retry_delay * (self.config.backoff_factor ** attempt)
backoff_time(cfg, attempt) == cfg.retry_delay * Pow(cfg.backoff_factor, attempt)

\* the get_resource calls so far that passed the checks: each looked the cache up
\* or, without a cache, went to the rate limiter
Fetches == IF UseCache(config) THEN cache.hits + cache.misses ELSE Len(admitted)

\* get_resource(resource_id, filters, offset, limit) up to the call of
\* wait_if_needed: the checks, the parameters, the cache lookup
GetResource(t, resource_id, filters, offset, limit) ==
    /\ pc[t] = "idle"
    /\ Fetches < MaxFetches
    /\ LET started == [NoHist EXCEPT !.call = <<resource_id, filters, offset, limit>>]
           params == Params(config, filters, offset, limit)
           key == make_key(resource_id, params)
           got == Cache_get(cache, key, now)
       IN
       IF Precheck(config, limit) # None
       THEN /\ hist' = [hist EXCEPT ![t] =
                   [started EXCEPT !.result = [kind |-> "raise",
                                               value |-> Precheck(config, limit)]]]
            /\ UNCHANGED <<cache, fetch, pc>>
       ELSE IF UseCache(config) /\ got.result # None
       THEN /\ cache' = got.cache
            /\ hist' = [hist EXCEPT ![t] =
                   [started EXCEPT !.lookups = 1,
                                   !.result = [kind |-> "return", value |-> got.result]]]
            /\ UNCHANGED <<fetch, pc>>
       ELSE /\ cache' = IF UseCache(config) THEN got.cache ELSE cache
            /\ hist' = [hist EXCEPT ![t] =
                   [started EXCEPT !.lookups = IF UseCache(config) THEN 1 ELSE 0]]
            /\ fetch' = [fetch EXCEPT ![t] =
                   [NoFetch EXCEPT !.active = TRUE, !.resource_id = resource_id,
                                   !.params = params]]
            /\ pc' = [pc EXCEPT ![t] = "wait"]
    /\ UNCHANGED <<now, lastOp, recency, written, made, lockVars, limiter, tnow, tcalls, wake, admitted, config>>

\* self.rate_limiter.wait_if_needed()
RateLimit(t) ==
    /\ pc[t] = "wait"
    /\ Enter(t)

\* one pass of the retry loop: the HTTP GET and the handling of what it ends in
Dispatch(t, o) ==
    /\ pc[t] = "dispatch"
    /\ LET f == fetch[t]
           key == make_key(f.resource_id, f.params)
           stored == Cache_set(cache, key, o.payload, NoTtl, now)
           caching == StoreReached(o, config)
           exception == AttemptException(o, IF caching THEN stored.raised ELSE None)
           tried == [hist[t] EXCEPT !.attempts =
                        Append(@, [kind |-> o.kind, payload |-> o.payload,
                                   exception |-> exception])]
       IN
       /\ cache' = IF caching THEN stored.cache ELSE cache
       /\ IF exception = None
          THEN \* return data
               /\ hist' = [hist EXCEPT ![t] =
                      [tried EXCEPT !.result = [kind |-> "return", value |-> o.payload]]]
               /\ fetch' = [fetch EXCEPT ![t] = NoFetch]
               /\ pc' = [pc EXCEPT ![t] = "idle"]
               /\ wake' = wake
          ELSE IF Reraised(exception)
          THEN /\ hist' = [hist EXCEPT ![t] =
                      [tried EXCEPT !.result = [kind |-> "raise", value |-> exception]]]
               /\ fetch' = [fetch EXCEPT ![t] = NoFetch]
               /\ pc' = [pc EXCEPT ![t] = "idle"]
               /\ wake' = wake
          ELSE IF RetriesLeft(f.attempt, config)
          THEN \* time.sleep(sleep_time) begins
               /\ hist' = [hist EXCEPT ![t] =
                      [tried EXCEPT !.sleeps =
                                       Append(@, backoff_time(config, f.attempt))]]
               /\ fetch' = [fetch EXCEPT ![t].last_exception =
                                            last_exception_of(exception)]
               /\ pc' = [pc EXCEPT ![t] = "backoff"]
               /\ wake' = [wake EXCEPT ![t] = now + backoff_time(config, f.attempt)]
          ELSE \* raise last_exception
               /\ hist' = [hist EXCEPT ![t] =
                      [tried EXCEPT !.result =
                           [kind |-> "raise", value |-> last_exception_of(exception)]]]
               /\ fetch' = [fetch EXCEPT ![t] = NoFetch]
               /\ pc' = [pc EXCEPT ![t] = "idle"]
               /\ wake' = wake
    /\ UNCHANGED <<now, lastOp, recency, written, made, lockVars, limiter, tnow, tcalls, admitted, config>>

\* a loop that calls wait_if_needed again before its next attempt
Retry_viaLimiter(t) ==
    /\ pc[t] = "backoff"
    /\ now >= wake[t]
    /\ fetch' = [fetch EXCEPT ![t].attempt = @ + 1]
    /\ pc' = [pc EXCEPT ![t] = "wait"]
    /\ wake' = [wake EXCEPT ![t] = 0]
    /\ UNCHANGED <<now, cacheVars, limiter, tnow, tcalls, admitted, config, hist>>

\* time.sleep returns; the loop goes to its next attempt
Retry(t) ==
    /\ pc[t] = "backoff"
    /\ now >= wake[t]
    /\ fetch' = [fetch EXCEPT ![t].attempt = @ + 1]
    /\ pc' = [pc EXCEPT ![t] = "dispatch"]
    /\ wake' = [wake EXCEPT ![t] = 0]
    /\ UNCHANGED <<now, cacheVars, limiter, tnow, tcalls, admitted, config, hist>>

\* DataGovInClient.__init__ with a Config that passed validate()
Init ==
    /\ now = 0
    /\ lastOp = NoOp
    /\ recency = <<>>
    /\ written = NeverWritten
    /\ made = NoKeys
    /\ InitLockVars
    /\ InitLimiterVars
    /\ fetch = [t \in Threads |-> NoFetch]
    /\ hist = [t \in Threads |-> NoHist]
    /\ \E key \in {None, "key"}, enabled \in BOOLEAN, retries \in 0..MaxRetries :
          config = [api_key |-> key, cache_enabled |-> enabled, max_retries |-> retries,
                    retry_delay |-> 1, backoff_factor |-> 2,
                    default_limit |-> 1, max_limit |-> 2]
    /\ IF config.cache_enabled
       THEN \E m \in {0, MaxCap}, d \in Ttls : cache = NewCache(m, d)
       ELSE cache = NewCache(0, 0)
    /\ limiter = NewLimiter(1, MaxPeriod)

\* one caller
Next ==
    \/ TickLimiter
    \/ \E r \in Requests : GetResource("t1", r[1], r[2], r[3], r[4])
    \/ RateLimit("t1")
    \/ wait_if_needed("t1")
    \/ \E o \in Outcomes : Dispatch("t1", o)
    \/ Retry("t1")

Spec == Init /\ [][Next]_vars

\* The retry loop with its delays: a client without a cache, every retry_delay,
\* backoff_factor and max_retries of the ranges, and a clock that time.sleep moves.

\* DataGovInClient.__init__ with cache_enabled false
InitBackoff ==
    /\ now = 0
    /\ lastOp = NoOp
    /\ recency = <<>>
    /\ written = NeverWritten
    /\ made = NoKeys
    /\ InitLockVars
    /\ InitLimiterVars
    /\ fetch = [t \in Threads |-> NoFetch]
    /\ hist = [t \in Threads |-> NoHist]
    /\ \E delay \in 1..MaxDelay, factor \in 0..MaxFactor, retries \in 0..MaxBackoffRetries :
          config = [api_key |-> "key", cache_enabled |-> FALSE, max_retries |-> retries,
                    retry_delay |-> delay, backoff_factor |-> factor,
                    default_limit |-> 1, max_limit |-> 2]
    /\ cache = NewCache(0, 0)
    /\ limiter = NewLimiter(1, 1)

\* time.sleep(sleep_time): the clock reaches the time at which the sleep ends
SleepThrough(t) ==
    /\ pc[t] \in {"sleep", "backoff"}
    /\ now < wake[t]
    /\ now' = wake[t]
    /\ UNCHANGED <<cacheVars, limiterVars, clientVars>>

NextBackoff ==
    \/ SleepThrough("t1")
    \/ \E r \in BackoffRequests : GetResource("t1", r[1], r[2], r[3], r[4])
    \/ RateLimit("t1")
    \/ wait_if_needed("t1")
    \/ \E o \in Outcomes : Dispatch("t1", o)
    \/ Retry("t1")

SpecBackoff == InitBackoff /\ [][NextBackoff]_vars

\* Several threads fetching through one client without a cache

\* DataGovInClient.__init__ with cache_enabled false
InitMT ==
    /\ now = 0
    /\ lastOp = NoOp
    /\ recency = <<>>
    /\ written = NeverWritten
    /\ made = NoKeys
    /\ InitLockVars
    /\ InitLimiterVars
    /\ fetch = [t \in Threads |-> NoFetch]
    /\ hist = [t \in Threads |-> NoHist]
    /\ config = [api_key |-> "key", cache_enabled |-> FALSE, max_retries |-> 1,
                 retry_delay |-> 1, backoff_factor |-> 2,
                 default_limit |-> 1, max_limit |-> 2]
    /\ cache = NewCache(0, 0)
    /\ limiter = NewLimiter(1, 1)

NextMT ==
    \E t \in Threads :
        \/ SleepThrough(t)
        \/ \E r \in BackoffRequests : GetResource(t, r[1], r[2], r[3], r[4])
        \/ RateLimit(t)
        \/ wait_if_needed(t)
        \/ \E o \in Outcomes : Dispatch(t, o)
        \/ Retry(t)

SpecMT == InitMT /\ [][NextMT]_vars

----------------------------------------------------------------------------
(* A single caller using the cache *)

InitCache ==
    /\ now = 0
    /\ \E m \in 0..MaxCap, d \in Ttls : cache = NewCache(m, d)
    /\ lastOp = NoOp
    /\ recency = <<>>
    /\ written = NeverWritten
    /\ made = NoKeys
    /\ InitLockVars
    /\ limiter = NewLimiter(1, 1)
    /\ InitLimiterVars
    /\ InitClientVars

\* time passes
Tick ==
    /\ now < MaxTime
    /\ now' = now + 1
    /\ written' = Lapse(written, now + 1)
    /\ made' = made
    /\ UNCHANGED <<cache, lastOp, recency, lockVars, limiterVars, clientVars>>

\* cache.get(key)
Get(key) ==
    /\ LET r == Cache_get(cache, key, now) IN
        /\ cache' = r.cache
        /\ lastOp' = [NoOp EXCEPT !.op = "get", !.key = key, !.result = r.result,
                                  !.prevHit = JustHit]
        /\ recency' = Forget(IF r.cache.hits > cache.hits
                             THEN Touch(recency, key) ELSE recency, r.cache.entries)
        /\ written' = written
        /\ made' = made
    /\ done' = [done EXCEPT !.gets = @ + 1]
    /\ UNCHANGED <<now, lock, call, limiterVars, clientVars>>

\* the caller calls cache.get(key)
CacheGet(key) ==
    /\ cache.hits + cache.misses < MaxLookups
    /\ Get(key)

\* cache.set(key, value, ttl)
CacheSet(key, value, ttl) ==
    /\ LET r == Cache_set(cache, key, value, ttl, now) IN
        /\ cache' = r.cache
        /\ lastOp' = [NoOp EXCEPT !.op = "set", !.key = key, !.raised = r.raised,
                        !.evicted = KeysOf(cache.entries) \ KeysOf(r.cache.entries),
                        !.fresh = Unexpired(cache.entries, now) \ KeysOf(r.cache.entries),
                        !.zeroAt = IF r.raised = None /\ RequestedTtl(cache, ttl) = 0
                                   THEN now ELSE -1,
                        !.prevHit = JustHit]
        /\ recency' = Forget(IF r.raised = None
                             THEN Touch(recency, key) ELSE recency, r.cache.entries)
        /\ written' = WrittenAfterSet(written, cache, r, key, value, ttl, now)
        /\ made' = made
    /\ UNCHANGED lockVars
    /\ UNCHANGED <<now, limiterVars, clientVars>>

\* cache.clear()
CacheClear ==
    /\ cache' = Cache_clear(cache)
    /\ lastOp' = [NoOp EXCEPT !.op = "clear", !.evicted = KeysOf(cache.entries),
                              !.fresh = Unexpired(cache.entries, now),
                              !.prevHit = JustHit]
    /\ recency' = <<>>
    /\ written' = NeverWritten
    /\ made' = made
    /\ done' = [done EXCEPT !.gets = 0]
    /\ UNCHANGED <<now, lock, call, limiterVars, clientVars>>

\* cache.stats()
CacheStats ==
    /\ lastOp' = [NoOp EXCEPT !.op = "stats", !.report = Cache_stats(cache),
                              !.prevHit = JustHit]
    /\ UNCHANGED <<now, cache, recency, written, made, lockVars, limiterVars, clientVars>>

\* the set calls made: every key with every TTL, one key with either value
SetArgs == {a \in Keys \X Values \X TtlArgs : a[1] = "k1" \/ a[2] = "v1"}

NextCache ==
    \/ Tick
    \/ \E k \in Keys : CacheGet(k)
    \/ \E a \in SetArgs : CacheSet(a[1], a[2], a[3])
    \/ CacheClear

SpecCache == InitCache /\ [][NextCache]_vars

\* A single caller that reads the statistics: more lookups, fewer keys and values

\* the caller calls cache.get(key)
CountedGet(key) ==
    /\ done.gets < MaxGets
    /\ Get(key)

NextStats ==
    \/ Tick
    \/ \E k \in MTKeys : CountedGet(k)
    \/ \E k \in MTKeys : CacheSet(k, "v1", NoTtl)
    \/ CacheClear
    \/ CacheStats

SpecStats == InitCache /\ [][NextStats]_vars

----------------------------------------------------------------------------
(* The cache keys *)

\* Cache.__init__
InitKeys ==
    /\ now = 0
    /\ cache = NewCache(1, MaxTtl)
    /\ lastOp = NoOp
    /\ recency = <<>>
    /\ written = NeverWritten
    /\ made = NoKeys
    /\ InitLockVars
    /\ limiter = NewLimiter(1, 1)
    /\ InitLimiterVars
    /\ InitClientVars

\* cache._make_key(resource_id, **kwargs)
MakeKey(resource_id, kwargs) ==
    /\ made' = (IF Len(made) < 2 THEN made ELSE Tail(made))
                   \o <<[resource_id |-> resource_id, kwargs |-> kwargs,
                         key |-> Cache_make_key(resource_id, kwargs)]>>
    /\ UNCHANGED <<now, cache, lastOp, recency, written, lockVars, limiterVars, clientVars>>

NextKeys == \E r \in Resources, kw \in Kwargs : MakeKey(r, kw)

SpecKeys == InitKeys /\ [][NextKeys]_vars

----------------------------------------------------------------------------
(* Several threads using the cache: every method runs `with self._lock:` *)

BodyStates == {"lookup", "count", "evict", "insert", "entries", "counters", "stats",
               "release"}

\* a thread calls a Cache method and reaches `with self._lock:`
CacheCall(t, name, key, value) ==
    /\ pc[t] = "idle"
    /\ done.calls < MaxOps
    /\ call' = [call EXCEPT ![t] = [NoCall EXCEPT !.name = name, !.key = key,
                                                  !.value = value]]
    /\ done' = [done EXCEPT !.calls = @ + 1]
    /\ pc' = [pc EXCEPT ![t] = "acquire"]
    /\ UNCHANGED <<now, cache, lastOp, recency, written, made, lock, limiter, tnow, tcalls,
                   wake, admitted, clientVars>>

\* a lock that is taken without waiting for its holder
Acquire_nolock(t) ==
    /\ pc[t] = "acquire"
    /\ lock' = t
    /\ call' = [call EXCEPT ![t].before = cache, ![t].at = now]
    /\ done' = IF call[t].name = "set"
               THEN [done EXCEPT !.lastSet[call[t].key] = call[t].value] ELSE done
    /\ pc' = [pc EXCEPT ![t] = CASE call[t].name = "get" -> "lookup"
                                  [] call[t].name = "set" -> "evict"
                                  [] call[t].name = "clear" -> "entries"
                                  [] call[t].name = "stats" -> "stats"]
    /\ UNCHANGED <<now, cache, lastOp, recency, written, made, limiter, tnow, tcalls,
                   wake, admitted, clientVars>>

\* self._lock.__enter__: the thread takes the lock when no thread holds it
Acquire(t) ==
    /\ pc[t] = "acquire"
    /\ lock = None
    /\ lock' = t
    /\ call' = [call EXCEPT ![t].before = cache, ![t].at = now]
    /\ done' = IF call[t].name = "set"
               THEN [done EXCEPT !.lastSet[call[t].key] = call[t].value] ELSE done
    /\ pc' = [pc EXCEPT ![t] = CASE call[t].name = "get" -> "lookup"
                                  [] call[t].name = "set" -> "evict"
                                  [] call[t].name = "clear" -> "entries"
                                  [] call[t].name = "stats" -> "stats"]
    /\ UNCHANGED <<now, cache, lastOp, recency, written, made, limiter, tnow, tcalls,
                   wake, admitted, clientVars>>

\* the steps of a method change the cache, the caller's record and its position
BodyFrame ==
    UNCHANGED <<now, lastOp, recency, written, made, lock, done, limiter, tnow, tcalls,
                wake, admitted, clientVars>>

\* get: the lookup, with `del self._cache[key]` or `move_to_end(key)`
GetLookup(t) ==
    /\ pc[t] = "lookup"
    /\ LET key == call[t].key
           found == HasKey(cache.entries, key)
           expired == found /\ is_expired(Lookup(cache.entries, key), now)
       IN /\ cache' = IF expired THEN [cache EXCEPT !.entries = DelKey(@, key)]
                       ELSE IF found THEN [cache EXCEPT !.entries = move_to_end(@, key)]
                       ELSE cache
          /\ call' = [call EXCEPT ![t].result =
                         IF found /\ ~expired THEN Lookup(cache.entries, key).value
                         ELSE None,
                                  ![t].raised = IF found /\ ~expired THEN "hit" ELSE "miss"]
    /\ pc' = [pc EXCEPT ![t] = "count"]
    /\ BodyFrame

\* get: self._hits += 1 or self._misses += 1, and the return statement
GetCount(t) ==
    /\ pc[t] = "count"
    /\ cache' = IF call[t].raised = "hit" THEN [cache EXCEPT !.hits = @ + 1]
                ELSE [cache EXCEPT !.misses = @ + 1]
    /\ call' = [call EXCEPT ![t].raised = None]
    /\ pc' = [pc EXCEPT ![t] = "release"]
    /\ BodyFrame

\* set: `del self._cache[key]`, or `popitem(last=False)` at capacity, which raises
\* KeyError on an empty cache
SetEvict(t) ==
    /\ pc[t] = "evict"
    /\ LET key == call[t].key
           raises == ~HasKey(cache.entries, key) /\ AtCapacity(cache)
                        /\ cache.entries = <<>>
       IN /\ cache' = IF HasKey(cache.entries, key)
                       THEN [cache EXCEPT !.entries = DelKey(@, key)]
                       ELSE IF AtCapacity(cache) /\ ~raises
                       THEN [cache EXCEPT !.entries = popitem_first(@)]
                       ELSE cache
          /\ call' = [call EXCEPT ![t].raised = IF raises THEN "KeyError" ELSE None]
          /\ pc' = [pc EXCEPT ![t] = IF raises THEN "release" ELSE "insert"]
    /\ BodyFrame

\* set: ttl = ttl or self.default_ttl; self._cache[key] = CacheEntry(value, ttl)
SetInsert(t) ==
    /\ pc[t] = "insert"
    /\ cache' = [cache EXCEPT !.entries =
                    Append(@, CacheEntry(call[t].key, call[t].value,
                                         ttl_or_default(call[t].ttl, cache.default_ttl),
                                         now))]
    /\ pc' = [pc EXCEPT ![t] = "release"]
    /\ call' = call
    /\ BodyFrame

\* clear: self._cache.clear()
ClearEntries(t) ==
    /\ pc[t] = "entries"
    /\ cache' = [cache EXCEPT !.entries = <<>>]
    /\ pc' = [pc EXCEPT ![t] = "counters"]
    /\ call' = call
    /\ BodyFrame

\* clear: self._hits = 0; self._misses = 0
ClearCounters(t) ==
    /\ pc[t] = "counters"
    /\ cache' = [cache EXCEPT !.hits = 0, !.misses = 0]
    /\ done' = [done EXCEPT !.gets = 0]
    /\ pc' = [pc EXCEPT ![t] = "release"]
    /\ UNCHANGED <<now, lastOp, recency, written, made, lock, call, limiter, tnow, tcalls,
                   wake, admitted, clientVars>>

\* stats: the dictionary is built
Stats(t) ==
    /\ pc[t] = "stats"
    /\ call' = [call EXCEPT ![t].report = Cache_stats(cache)]
    /\ pc' = [pc EXCEPT ![t] = "release"]
    /\ cache' = cache
    /\ BodyFrame

\* self._lock.__exit__: the lock is released, the method returns or raises
Release(t) ==
    /\ pc[t] = "release"
    /\ lock' = IF lock = t THEN None ELSE lock
    /\ done' = IF call[t].name = "get" THEN [done EXCEPT !.gets = @ + 1] ELSE done
    /\ call' = [call EXCEPT ![t].before = NewCache(0, 0), ![t].at = 0]
    /\ pc' = [pc EXCEPT ![t] = "idle"]
    /\ UNCHANGED <<now, cache, lastOp, recency, written, made, limiter, tnow, tcalls,
                   wake, admitted, clientVars>>

NextCacheMT ==
    \/ Tick
    \/ \E t \in Threads :
          \/ \E k \in MTKeys : CacheCall(t, "get", k, None)
          \/ \E k \in MTKeys, v \in Values : CacheCall(t, "set", k, v)
          \/ CacheCall(t, "clear", None, None)
          \/ CacheCall(t, "stats", None, None)
          \/ Acquire(t)
          \/ GetLookup(t) \/ GetCount(t)
          \/ SetEvict(t) \/ SetInsert(t)
          \/ ClearEntries(t) \/ ClearCounters(t)
          \/ Stats(t)
          \/ Release(t)

SpecCacheMT == InitCache /\ [][NextCacheMT]_vars

----------------------------------------------------------------------------
(* Several threads fetching through one client with its cache, and calling the
   cache: the client's cache.get and cache.set take the lock like every call *)

\* the resource fetched, and the key of its fetches
LockedResources == {"r1"}
FetchKeys == {make_key(r, Params(config, None, 0, 1)) : r \in LockedResources}

\* what an HTTP GET ends in: a payload, a status error, a timeout
LockedOutcomes == {o \in Outcomes : o.kind \in {"s404", "timeout"} \/ o.payload = "p1"}

\* DataGovInClient.__init__ with cache_enabled true
InitLocked ==
    /\ now = 0
    /\ lastOp = NoOp
    /\ recency = <<>>
    /\ written = NeverWritten
    /\ made = NoKeys
    /\ InitLockVars
    /\ InitLimiterVars
    /\ fetch = [t \in Threads |-> NoFetch]
    /\ hist = [t \in Threads |-> NoHist]
    /\ config = [api_key |-> "key", cache_enabled |-> TRUE, max_retries |-> 1,
                 retry_delay |-> 1, backoff_factor |-> 2,
                 default_limit |-> 1, max_limit |-> 2]
    /\ \E m \in {0, 1} : cache = NewCache(m, MaxTtl)
    /\ limiter = NewLimiter(1, 1)

\* get_resource(resource_id, limit=1) up to `with self._lock:` in cache.get
FetchCall(t, resource_id) ==
    /\ pc[t] = "idle"
    /\ done.calls < MaxOps
    /\ Precheck(config, 1) = None
    /\ UseCache(config)
    /\ LET params == Params(config, None, 0, 1) IN
       /\ hist' = [hist EXCEPT ![t] =
              [NoHist EXCEPT !.call = <<resource_id, None, 0, 1>>, !.lookups = 1]]
       /\ fetch' = [fetch EXCEPT ![t] =
              [NoFetch EXCEPT !.active = TRUE, !.resource_id = resource_id,
                              !.params = params]]
       /\ call' = [call EXCEPT ![t] =
              [NoCall EXCEPT !.name = "get", !.key = make_key(resource_id, params)]]
    /\ done' = [done EXCEPT !.calls = @ + 1]
    /\ pc' = [pc EXCEPT ![t] = "acquire"]
    /\ UNCHANGED <<now, cache, lastOp, recency, written, made, lock, limiter, tnow,
                   tcalls, wake, admitted, config>>

\* self._lock.__enter__: the thread takes the lock when no thread holds it
WithLock(t) ==
    /\ pc[t] = "acquire"
    /\ lock = None
    /\ lock' = t
    /\ pc' = [pc EXCEPT ![t] = CASE call[t].name = "get" -> "lookup"
                                  [] call[t].name = "set" -> "evict"
                                  [] call[t].name = "clear" -> "entries"
                                  [] call[t].name = "stats" -> "stats"]
    /\ UNCHANGED <<now, cache, lastOp, recency, written, made, call, done, limiter,
                   tnow, tcalls, wake, admitted, clientVars>>

\* a lock that is kept when the method ends
Released_never(t) == lock

\* self._lock.__exit__: the lock after the thread left the with block
Released(t) == IF lock = t THEN None ELSE lock

\* the client's cache.get or cache.set ends: the lock is released, and
\* _make_request goes on with what the call returned or raised
FetchRelease(t) ==
    /\ pc[t] = "release"
    /\ fetch[t].active
    /\ lock' = Released(t)
    /\ LET f == fetch[t] IN
       IF call[t].name = "get" /\ call[t].result = None
       THEN \* a miss: on to the rate limiter
            /\ pc' = [pc EXCEPT ![t] = "wait"]
            /\ UNCHANGED <<fetch, hist, wake>>
       ELSE IF call[t].raised = None
       THEN \* return cached / return data
            /\ hist' = [hist EXCEPT ![t].result =
                   [kind |-> "return",
                    value |-> IF call[t].name = "get" THEN call[t].result
                              ELSE call[t].value]]
            /\ fetch' = [fetch EXCEPT ![t] = NoFetch]
            /\ pc' = [pc EXCEPT ![t] = "idle"]
            /\ wake' = wake
       ELSE IF RetriesLeft(f.attempt, config)
       THEN \* except Exception; time.sleep(sleep_time) begins
            /\ hist' = [hist EXCEPT ![t].sleeps =
                                       Append(@, backoff_time(config, f.attempt))]
            /\ fetch' = [fetch EXCEPT ![t].last_exception =
                                         last_exception_of(call[t].raised)]
            /\ pc' = [pc EXCEPT ![t] = "backoff"]
            /\ wake' = [wake EXCEPT ![t] = now + backoff_time(config, f.attempt)]
       ELSE \* raise last_exception
            /\ hist' = [hist EXCEPT ![t].result =
                   [kind |-> "raise", value |-> last_exception_of(call[t].raised)]]
            /\ fetch' = [fetch EXCEPT ![t] = NoFetch]
            /\ pc' = [pc EXCEPT ![t] = "idle"]
            /\ wake' = wake
    /\ UNCHANGED <<now, cache, lastOp, recency, written, made, call, done, limiter,
                   tnow, tcalls, admitted, config>>

\* one pass of the retry loop: the HTTP GET ends; a response that is to be stored
\* takes the thread to `with self._lock:` in cache.set
FetchDispatch(t, o) ==
    IF StoreReached(o, config)
    THEN /\ pc[t] = "dispatch"
         /\ call' = [call EXCEPT ![t] =
                [NoCall EXCEPT !.name = "set", !.value = o.payload,
                               !.key = make_key(fetch[t].resource_id, fetch[t].params)]]
         /\ hist' = [hist EXCEPT ![t].attempts =
                Append(@, [kind |-> o.kind, payload |-> o.payload, exception |-> None])]
         /\ pc' = [pc EXCEPT ![t] = "acquire"]
         /\ UNCHANGED <<now, cache, lastOp, recency, written, made, lock, done,
                        limiter, tnow, tcalls, wake, admitted, config, fetch>>
    ELSE Dispatch(t, o)

NextLocked ==
    \E t \in Threads :
        \/ SleepThrough(t)
        \/ \E r \in LockedResources : FetchCall(t, r)
        \/ \E k \in FetchKeys : CacheCall(t, "get", k, None)
        \/ \E k \in FetchKeys : CacheCall(t, "set", k, "p1")
        \/ CacheCall(t, "clear", None, None)
        \/ CacheCall(t, "stats", None, None)
        \/ WithLock(t)
        \/ GetLookup(t) \/ GetCount(t)
        \/ SetEvict(t) \/ SetInsert(t)
        \/ ClearEntries(t) \/ ClearCounters(t)
        \/ Stats(t)
        \/ ~fetch[t].active /\ Release(t)
        \/ FetchRelease(t)
        \/ RateLimit(t)
        \/ wait_if_needed(t)
        \/ \E o \in LockedOutcomes : FetchDispatch(t, o)
        \/ Retry(t)

SpecLocked == InitLocked /\ [][NextLocked]_vars

----------------------------------------------------------------------------
(* Claims about the rate limiter *)

\* the calls admitted in the window of `period` seconds that ends at time e; like
\* the limiter's own window (now - call_time < period) it is open at its old end
WindowCount(e) ==
    Cardinality({i \in 1..Len(admitted) :
                    e - admitted[i] < limiter.period /\ admitted[i] <= e})

\* the threads between two of their accesses to self.calls, not asleep
Accessing == {t \in Threads : pc[t] \in {"prune", "check", "compute", "reset", "append"}}

\* C3: with one caller, in every trailing window of `period` seconds the number of
\* admitted calls never exceeds max_calls.
C3_RateBound == \A e \in 0..now : WindowCount(e) <= limiter.max_calls

\* C4: with several threads, the limiter's state is accessed under mutual
\* exclusion, and in every trailing window of `period` seconds the number of calls
\* admitted across all threads never exceeds max_calls.
C4_MutexAndRateBound ==
    /\ Cardinality(Accessing) <= 1
    /\ \A e \in 0..now : WindowCount(e) <= limiter.max_calls

----------------------------------------------------------------------------
(* Claims about the cache *)

\* the thread leaves the place where it stands
Leaves(t, place) == pc[t] = place /\ pc'[t] # place

\* C27: wait_if_needed keeps the recorded timestamps that lie within the last
\* `period` seconds of its entry, in their order. When max_calls or more are left
\* it sleeps, not less than until the oldest of them is `period` old, then
\* discards all recorded timestamps and records only the instant of its release;
\* when fewer are left it does not sleep and appends the current instant to them.
C27_WindowReset ==
    [][\A t \in Threads :
          /\ Leaves(t, "prune") =>
                limiter'.calls = SelectSeq(limiter.calls,
                                           LAMBDA c : tnow[t] - c < limiter.period)
          /\ Leaves(t, "check") =>
                /\ limiter' = limiter
                /\ pc'[t] = IF Len(limiter.calls) >= limiter.max_calls
                            THEN "compute" ELSE "append"
          /\ Leaves(t, "compute") =>
                /\ pc'[t] = "sleep"
                /\ wake'[t] >= limiter.calls[1] + limiter.period
                /\ limiter' = limiter
          /\ Leaves(t, "sleep") =>
                /\ pc'[t] = "reset"
                /\ now >= limiter.calls[1] + limiter.period
                /\ limiter' = limiter
          /\ Leaves(t, "reset") =>
                /\ pc'[t] = "append"
                /\ limiter'.calls = <<>>
          /\ Leaves(t, "append") =>
                /\ pc'[t] = "idle"
                /\ now' = now
                /\ limiter'.calls = Append(limiter.calls, now)
                /\ admitted' = Append(admitted, now)]_vars

\* a call has returned after a wait: only the instant of its release is recorded,
\* and a call admitted less than `period` ago is no longer
C27_Witness ==
    /\ pc["t1"] = "idle"
    /\ limiter.calls = <<now>>
    /\ Len(admitted) > limiter.max_calls
    /\ admitted[Len(admitted)] = now
    /\ \E i \in 1..(Len(admitted) - 1) :
          /\ now - admitted[i] < limiter.period
          /\ admitted[i] < now

EntrySet(entries) == {entries[i] : i \in 1..Len(entries)}

\* this step is a Cache.set that inserts a key not stored before, into a cache
\* that holds max_size entries
EvictingSet ==
    /\ lastOp'.op = "set"
    /\ ~HasKey(cache.entries, lastOp'.key)
    /\ HasKey(cache'.entries, lastOp'.key)
    /\ Len(cache.entries) = cache.max_size

\* exactly one entry goes, the one whose last access is the oldest; the others stay
EvictsOldest ==
    /\ KeysOf(cache.entries) \ KeysOf(cache'.entries) = {OldestAccessed(recency)}
    /\ EntrySet(cache.entries) \ EntrySet(cache'.entries)
          = {Lookup(cache.entries, OldestAccessed(recency))}
    /\ Len(cache'.entries) = Len(cache.entries)

\* C1: in every state reachable by set, get and clear calls and the passage of
\* time, the number of stored entries is at most max_size.
C1_SizeBound == Len(cache.entries) <= cache.max_size

\* a set has just evicted an entry of a full cache, which is full again
C1_Witness ==
    /\ lastOp.op = "set"
    /\ lastOp.evicted # {}
    /\ Len(cache.entries) = cache.max_size

\* C2 as stated: a set that inserts a new key into a full cache removes exactly
\* the entry whose last access is the oldest and keeps every other entry, and a
\* key read by a get immediately before that set is not the one evicted.
C2_AsStated ==
    [][EvictingSet => /\ EvictsOldest
                      /\ JustHit # None => HasKey(cache'.entries, JustHit)]_vars

\* C2 as amended: the same, the key read immediately before being protected when
\* the cache holds at least two entries.
C2_LRUEviction ==
    [][EvictingSet => /\ EvictsOldest
                      /\ (JustHit # None /\ Len(cache.entries) >= 2)
                            => HasKey(cache'.entries, JustHit)]_vars

\* a set has just evicted an entry of a cache of two or more entries, right after
\* a get that hit another key, which is still stored
C2_Witness ==
    /\ lastOp.op = "set"
    /\ lastOp.evicted # {}
    /\ Len(cache.entries) >= 2
    /\ lastOp.prevHit # None
    /\ HasKey(cache.entries, lastOp.prevHit)

\* the step is a Cache.get call
IsGet == cache'.hits + cache'.misses = cache.hits + cache.misses + 1

\* C15: Cache.get of a key that was never set, or that was cleared or evicted and
\* not set again, returns absent; for a key set with TTL T at time t0 and not
\* since replaced, evicted or cleared, a get at a time within the TTL returns
\* exactly the value last stored under the key.
C15_ReadCorrect ==
    [][IsGet =>
          LET k == lastOp'.key IN
          /\ written[k].state = "absent" => lastOp'.result = None
          /\ (written[k].state = "stored" /\ now <= written[k].until) =>
                lastOp'.result = written[k].value]_vars

\* a get returned, after the clock moved, the value stored before
C15_Witness ==
    /\ lastOp.op = "get"
    /\ lastOp.result # None
    /\ written[lastOp.key].state = "stored"
    /\ written[lastOp.key].value = lastOp.result
    /\ now = written[lastOp.key].until
    /\ now > 0

\* this step is a Cache.set of a key that is stored
ReplacingSet ==
    /\ lastOp'.op = "set"
    /\ now' = now
    /\ HasKey(cache.entries, lastOp'.key)

\* C20: Cache.set on a key already present replaces its value and its expiry,
\* makes the key the most recently used, leaves the number of entries unchanged
\* and evicts no other entry, also when the cache holds max_size entries: the
\* other entries stay as they are and in their order, and nothing is raised.
C20_ReplaceInPlace ==
    [][ReplacingSet =>
          LET k == lastOp'.key
              new == Lookup(cache'.entries, k)
          IN
          /\ lastOp'.raised = None
          /\ HasKey(cache'.entries, k)
          /\ new.value = written'[k].value
          /\ new.expiry >= written'[k].until
          /\ new.expiry >= now
          /\ cache'.entries[Len(cache'.entries)] = new
          /\ recency'[Len(recency')] = k
          /\ Len(cache'.entries) = Len(cache.entries)
          /\ lastOp'.evicted = {}
          /\ DelKey(cache'.entries, k) = DelKey(cache.entries, k)
          /\ cache'.hits = cache.hits /\ cache'.misses = cache.misses]_vars

\* a key just read with a hit was set again in a cache holding max_size entries,
\* two or more, and nothing was evicted
C20_Witness ==
    /\ lastOp.op = "set"
    /\ lastOp.prevHit = lastOp.key
    /\ lastOp.evicted = {}
    /\ Len(cache.entries) = cache.max_size
    /\ cache.max_size >= 2
    /\ cache.entries[Len(cache.entries)].key = lastOp.key

\* C8: a value stored by set with a TTL of 0 (passed, or taken from default_ttl = 0)
\* is absent on the next get of its key once time has passed, and that get counts
\* a miss and no hit.
C8_ZeroTtlAbsent ==
    [][(/\ lastOp.op = "set"
        /\ lastOp.zeroAt >= 0
        /\ now > lastOp.zeroAt
        /\ lastOp'.op = "get"
        /\ lastOp'.key = lastOp.key
        /\ cache'.hits + cache'.misses = cache.hits + cache.misses + 1)
       => (/\ lastOp'.result = None
           /\ cache'.misses = cache.misses + 1
           /\ cache'.hits = cache.hits)]_vars


\* ---------------------------------------------------------------------------
\* Claims about the fetch path (api_client.py), checked under Spec
\* ---------------------------------------------------------------------------

StatusKinds == {"s404", "s429", "s4xx"}
NetworkKinds == {"timeout", "network"}
StatusErrors == {"ResourceNotFoundError", "RateLimitError", "APIError"}

\* attempt i of the fetch of t was followed by a backoff sleep
Retried(t, i) == i < Len(hist[t].attempts) \/ (i = Len(hist[t].attempts) /\ pc[t] = "backoff")

\* the fetch of t is over and ended by raising the exception
Aborted(t, exception) ==
    /\ pc[t] = "idle"
    /\ ~fetch[t].active
    /\ hist[t].result = [kind |-> "raise", value |-> exception]
    /\ Len(hist[t].sleeps) = Len(hist[t].attempts) - 1

\* C5 as the specification words it: an attempt is followed by a backoff sleep and
\* a further HTTP call only if it ended in a timeout or a transport-level failure.
C5_AsStated ==
    \A t \in Threads : \A i \in 1..Len(hist[t].attempts) :
        Retried(t, i) => hist[t].attempts[i].kind \in NetworkKinds

\* C5, amended: an attempt is followed by a backoff sleep and a further HTTP call
\* only if it raised an exception that is none of ResourceNotFoundError,
\* RateLimitError and APIError (a timeout, a transport-level failure, or any other
\* exception raised while the attempt is handled); an attempt that ended in one of
\* these three errors, or in a returned payload, is the last one of its fetch.
C5_RetryOnlyAfterOtherException ==
    \A t \in Threads : \A i \in 1..Len(hist[t].attempts) :
        LET a == hist[t].attempts[i] IN
        /\ Retried(t, i) =>
              /\ a.exception \notin StatusErrors \cup {None}
              /\ a.kind \in NetworkKinds \cup {"other", "ok"}
        /\ a.exception \in StatusErrors =>
              i = Len(hist[t].attempts) /\ Aborted(t, a.exception)
        /\ a.exception = None =>
              /\ i = Len(hist[t].attempts)
              /\ pc[t] = "idle"
              /\ hist[t].result.kind = "return"

\* a fetch made a second attempt after one that ended in an unexpected exception
C5_Witness ==
    \E t \in Threads :
        /\ Len(hist[t].attempts) >= 2
        /\ hist[t].attempts[1].kind = "other"

\* C6: a response with status 404, 429, or any other status of 400 and above makes
\* the fetch raise ResourceNotFoundError, RateLimitError, APIError respectively at
\* that attempt, with no further HTTP call and no backoff sleep, whatever
\* max_retries is.
C6_StatusErrorsAbort ==
    \A t \in Threads : \A i \in 1..Len(hist[t].attempts) :
        LET kind == hist[t].attempts[i].kind IN
        kind \in StatusKinds =>
            /\ i = Len(hist[t].attempts)
            /\ Aborted(t, CASE kind = "s404" -> "ResourceNotFoundError"
                            [] kind = "s429" -> "RateLimitError"
                            [] kind = "s4xx" -> "APIError")

\* with retries left, a second attempt answered 429 and ended the fetch
C6_Witness ==
    \E t \in Threads :
        /\ Len(hist[t].attempts) = 2
        /\ config.max_retries >= 2
        /\ hist[t].attempts[2].kind = "s429"
        /\ hist[t].result = [kind |-> "raise", value |-> "RateLimitError"]

\* C7 as the specification words it: a get_resource call that finds an unexpired
\* entry stored under its key returns the stored value and makes no HTTP call and
\* no rate-limiter call.
C7_HitShortCircuits ==
    [][\A t \in Threads :
          (/\ pc[t] = "idle"
           /\ hist'[t] # hist[t]
           /\ UseCache(config)
           /\ Precheck(config, hist'[t].call[4]) = None
           /\ LET c == hist'[t].call
                  key == make_key(c[1], Params(config, c[2], c[3], c[4]))
              IN /\ HasKey(cache.entries, key)
                 /\ ~is_expired(Lookup(cache.entries, key), now))
          =>
          (LET c == hist'[t].call
               key == make_key(c[1], Params(config, c[2], c[3], c[4]))
           IN /\ hist'[t].result =
                    [kind |-> "return", value |-> Lookup(cache.entries, key).value]
              /\ pc'[t] = "idle"
              /\ ~fetch'[t].active
              /\ limiter' = limiter
              /\ admitted' = admitted)]_vars

\* C9 as the specification words it: every HTTP call is preceded by a
\* wait_if_needed call of its own.
C9_AsStated ==
    \A t \in Threads : hist[t].waits >= Len(hist[t].attempts)

\* C9, amended: a fetch that makes HTTP calls has called wait_if_needed exactly
\* once, before its first attempt; the retries are not preceded by a call of
\* their own, so one call covers up to max_retries + 1 HTTP calls.
C9_OneWaitPerFetch ==
    \A t \in Threads :
        /\ hist[t].waits <= 1
        /\ pc[t] \in {"dispatch", "backoff"} => hist[t].waits = 1
        /\ Len(hist[t].attempts) >= 1 => hist[t].waits = 1
        /\ Len(hist[t].attempts) <= config.max_retries + 1

\* a fetch that returned after a retry
C9_Witness ==
    \E t \in Threads :
        /\ Len(hist[t].attempts) >= 2
        /\ hist[t].waits = 1
        /\ hist[t].result.kind = "return"

\* no HTTP call, no cache access and no rate-limiter call has been made
NothingDone ==
    /\ cache.entries = <<>>
    /\ cache.hits = 0
    /\ cache.misses = 0
    /\ limiter.calls = <<>>
    /\ admitted = <<>>
    /\ \A t \in Threads :
          /\ pc[t] = "idle"
          /\ ~fetch[t].active
          /\ hist[t].attempts = <<>>
          /\ hist[t].waits = 0
          /\ hist[t].lookups = 0

\* C10 as the specification words it: without an API key every get_resource call
\* fails with APIKeyMissingError and does nothing else.
C10_AsStated ==
    config.api_key = None =>
        /\ NothingDone
        /\ \A t \in Threads :
              hist[t].call # <<>> =>
                  hist[t].result = [kind |-> "raise", value |-> "APIKeyMissingError"]

\* C10, amended: without an API key every get_resource call fails and makes no
\* HTTP call, no cache access and no rate-limiter call; it fails with
\* InvalidParameterError when its limit, after defaulting, exceeds max_limit, and
\* with APIKeyMissingError otherwise.
C10_NoKeyFails ==
    config.api_key = None =>
        /\ NothingDone
        /\ \A t \in Threads :
              hist[t].call # <<>> =>
                  hist[t].result =
                      [kind |-> "raise",
                       value |-> IF limit_or_default(hist[t].call[4], config)
                                        > config.max_limit
                                 THEN "InvalidParameterError"
                                 ELSE "APIKeyMissingError"]

\* a call with filters made without an API key
C10_Witness ==
    \E t \in Threads :
        /\ config.api_key = None
        /\ hist[t].call # <<>>
        /\ hist[t].call[2] # None
        /\ hist[t].result = [kind |-> "raise", value |-> "APIKeyMissingError"]

\* C11: with an API key configured, a get_resource call whose limit exceeds
\* max_limit fails with InvalidParameterError and leaves the cache (entries and
\* their order, hit and miss counters) and the rate limiter's recorded timestamps
\* unchanged, and makes no HTTP call.
C11_LimitRejected ==
    [][\A t \in Threads :
          (/\ pc[t] = "idle"
           /\ hist'[t] # hist[t]
           /\ config.api_key # None
           /\ hist'[t].call[4] > config.max_limit)
          =>
          (/\ hist'[t].result = [kind |-> "raise", value |-> "InvalidParameterError"]
           /\ hist'[t].attempts = <<>>
           /\ hist'[t].waits = 0
           /\ cache' = cache
           /\ limiter' = limiter
           /\ admitted' = admitted
           /\ pc'[t] = "idle"
           /\ ~fetch'[t].active)]_vars

\* a call with too large a limit was rejected while the cache held an entry and
\* the rate limiter a timestamp
C11_Witness ==
    \E t \in Threads :
        /\ config.api_key # None
        /\ hist[t].call # <<>>
        /\ hist[t].call[4] > config.max_limit
        /\ hist[t].result = [kind |-> "raise", value |-> "InvalidParameterError"]
        /\ cache.entries # <<>>
        /\ limiter.calls # <<>>

\* the get_resource call of t has ended
Over(t) == pc[t] = "idle" /\ ~fetch[t].active /\ hist[t].result.kind # "none"

\* every HTTP call of the fetch of t so far ended in one of the kinds
AllAttempts(t, kinds) ==
    \A i \in 1..Len(hist[t].attempts) : hist[t].attempts[i].kind \in kinds

\* C12: if every attempt of a fetch times out, the fetch fails with NetworkError
\* after exactly max_retries + 1 HTTP calls and exactly max_retries backoff
\* sleeps; no sleep follows the last attempt.
C12_RetryExhaustion ==
    \A t \in Threads :
        (hist[t].attempts # <<>> /\ AllAttempts(t, {"timeout"})) =>
            /\ Len(hist[t].attempts) <= config.max_retries + 1
            /\ Over(t) =>
                  /\ hist[t].result = [kind |-> "raise", value |-> "NetworkError"]
                  /\ Len(hist[t].attempts) = config.max_retries + 1
                  /\ Len(hist[t].sleeps) = config.max_retries
            /\ ~Over(t) =>
                  /\ pc[t] \in {"backoff", "dispatch"}
                  /\ Len(hist[t].sleeps) = Len(hist[t].attempts)
                  /\ Len(hist[t].attempts) <= config.max_retries

\* a fetch with retries configured ended after nothing but timeouts
C12_Witness ==
    \E t \in Threads :
        /\ config.max_retries >= 2
        /\ Over(t)
        /\ Len(hist[t].attempts) = config.max_retries + 1
        /\ AllAttempts(t, {"timeout"})

\* C13 as the specification words it: when the first k attempts of a fetch
\* (k <= max_retries) time out or fail at transport level and attempt k + 1 gets
\* a 2xx response, the fetch returns the payload of that response after exactly
\* k + 1 HTTP calls and raises nothing.
C13_TransientRecovers ==
    \A t \in Threads : \A i \in 1..Len(hist[t].attempts) :
        (/\ hist[t].attempts[i].kind = "ok"
         /\ \A j \in 1..(i - 1) : hist[t].attempts[j].kind \in NetworkKinds)
        =>
        (/\ i = Len(hist[t].attempts)
         /\ Over(t)
         /\ hist[t].result =
               [kind |-> "return", value |-> hist[t].attempts[i].payload])

\* ---------------------------------------------------------------------------
\* Claims about the backoff delays, checked under SpecBackoff
\* ---------------------------------------------------------------------------

\* C14: the sleep after failed attempt i (zero-based) is
\* retry_delay * backoff_factor^i: the first delay of every fetch is retry_delay
\* and each further one is backoff_factor times the one before, so that with
\* retry_delay 1 and backoff_factor 2 the delays before attempts 2, 3 and 4 are
\* 1, 2 and 4; the delays of one fetch are non-decreasing when
\* backoff_factor >= 1; each sleep lasts until its delay has passed.
C14_BackoffSequence ==
    \A t \in Threads :
        LET s == hist[t].sleeps IN
        /\ Len(s) <= Len(hist[t].attempts)
        /\ Len(s) >= 1 => s[1] = config.retry_delay
        /\ \A i \in 1..(Len(s) - 1) : s[i + 1] = s[i] * config.backoff_factor
        /\ (config.retry_delay = 1 /\ config.backoff_factor = 2) =>
              \A i \in 1..Len(s) : i <= 3 => s[i] = <<1, 2, 4>>[i]
        /\ config.backoff_factor >= 1 => \A i \in 1..(Len(s) - 1) : s[i] <= s[i + 1]
        /\ pc[t] = "backoff" => wake[t] - now \in 0..s[Len(s)]

\* a second fetch slept 1, 2 and 4 before its attempts 2, 3 and 4
C14_Witness ==
    \E t \in Threads :
        /\ Len(admitted) >= 2
        /\ hist[t].sleeps = <<1, 2, 4>>
        /\ Len(hist[t].attempts) = 4

\* ---------------------------------------------------------------------------
\* More claims about the fetch path, checked under Spec
\* ---------------------------------------------------------------------------

ErrorNames ==
    {"APIKeyMissingError", "InvalidParameterError", "ResourceNotFoundError",
     "RateLimitError", "APIError", "NetworkError"}

\* C16: a fetch that ends by raising an error returns no payload and never
\* inserts or replaces a cache entry; Cache.set is reached only on an attempt
\* whose response has a status below 400 and a body that decoded. Every step that
\* puts an entry into the cache is a dispatch step whose attempt succeeded and
\* that returns the payload; a dispatch step that raises or goes on to a retry
\* leaves the cache as it was.
C16_NoWriteOnFailure ==
    [][\A t \in Threads :
          /\ (\E i \in 1..Len(cache'.entries) :
                 cache'.entries[i] \notin EntrySet(cache.entries)) =>
                \E u \in Threads :
                    /\ pc[u] = "dispatch"
                    /\ hist'[u].attempts[Len(hist'[u].attempts)].kind = "ok"
                    /\ hist'[u].result.kind = "return"
          /\ (pc[t] = "dispatch" /\ hist'[t].result.kind # "return") => cache' = cache
          /\ hist'[t].result.kind = "raise" => hist'[t].result.value \in ErrorNames
          /\ hist'[t].result.kind = "return" => hist'[t].result.value \in Payloads]_vars

\* with the cache enabled and able to hold entries, a fetch ended by raising after
\* a retry while the cache held the entry of an earlier fetch
C16_Witness ==
    \E t \in Threads :
        /\ UseCache(config)
        /\ Len(cache.entries) = 1
        /\ Over(t)
        /\ hist[t].result.kind = "raise"
        /\ Len(hist[t].attempts) >= 2

\* ---------------------------------------------------------------------------
\* Claims about the cache used by several threads, checked under SpecCacheMT
\* ---------------------------------------------------------------------------

\* the cache that the method of t leaves when it runs alone, at time tau, on the
\* cache it found when it took the lock
Alone(t, tau) ==
    CASE call[t].name = "get" -> Cache_get(call[t].before, call[t].key, tau).cache
      [] call[t].name = "set" ->
            Cache_set(call[t].before, call[t].key, call[t].value, call[t].ttl, tau).cache
      [] call[t].name = "clear" -> Cache_clear(call[t].before)
      [] call[t].name = "stats" -> call[t].before

\* C17: in every interleaving of get, set, clear and stats calls of several
\* threads, the body of a method runs only while its thread holds the lock, one
\* thread at a time, and when it ends the cache is what the method run alone would
\* have left; after sets of the same key the stored value is the one of the set
\* that took the lock last; the size bound holds; and hits + misses is the number
\* of gets completed since the last clear.
C17_Linearizable ==
    /\ \A t \in Threads : pc[t] \in BodyStates <=> lock = t
    /\ Cardinality({t \in Threads : pc[t] \in BodyStates}) <= 1
    /\ \A t \in Threads :
          pc[t] = "release" => \E tau \in call[t].at..now : cache = Alone(t, tau)
    /\ lock = None =>
          /\ \A k \in Keys :
                HasKey(cache.entries, k) =>
                    Lookup(cache.entries, k).value = done.lastSet[k]
          /\ cache.hits + cache.misses = done.gets
    /\ Len(cache.entries) <= cache.max_size

\* two threads have set the same key to different values, one waited for the lock
\* while the other held it, and both calls have returned
C17_Witness ==
    /\ lock = None
    /\ \A t \in Threads : pc[t] = "idle" /\ call[t].name = "set" /\ call[t].raised = None
    /\ call["t1"].key = call["t2"].key
    /\ call["t1"].value # call["t2"].value
    /\ HasKey(cache.entries, call["t1"].key)
    /\ done.calls = 2

\* C26: whatever each attempt ends in (a payload, an HTTP error status, a
\* timeout, a transport failure, any other exception), a fetch makes at most
\* max_retries + 1 HTTP calls and at most max_retries backoff sleeps, each
\* sleep after an attempt of its own.
C26_AttemptBound ==
    \A t \in Threads :
        /\ Len(hist[t].attempts) <= config.max_retries + 1
        /\ Len(hist[t].sleeps) <= config.max_retries
        /\ Len(hist[t].sleeps) <= Len(hist[t].attempts)
        /\ fetch[t].active => fetch[t].attempt <= config.max_retries

\* a fetch ended after max_retries + 1 calls that did not all end alike, the
\* last one in an exception that is neither a status error nor a transport one
C26_Witness ==
    \E t \in Threads :
        /\ config.max_retries >= 2
        /\ Over(t)
        /\ Len(hist[t].attempts) = config.max_retries + 1
        /\ Len(hist[t].sleeps) = config.max_retries
        /\ hist[t].attempts[1].kind = "network"
        /\ hist[t].attempts[2].kind = "timeout"
        /\ hist[t].attempts[Len(hist[t].attempts)].kind \in {"other", "ok"}
        /\ hist[t].result.kind = "raise"

\* C29 as the specification implies it: with caching enabled, after a fetch
\* returned the payload of an HTTP call, whatever the payload (JSON null too), an
\* identical fetch made while the entry is stored and unexpired returns the same
\* payload at once, without an HTTP call and without a rate-limiter call.
C29_StoreThenHit ==
    [][\A t \in Threads :
          (/\ pc[t] = "idle"
           /\ hist'[t] # hist[t]
           /\ UseCache(config)
           /\ hist[t].attempts # <<>>
           /\ hist[t].result.kind = "return"
           /\ hist'[t].call = hist[t].call
           /\ LET c == hist[t].call
                  key == make_key(c[1], Params(config, c[2], c[3], c[4]))
              IN /\ HasKey(cache.entries, key)
                 /\ ~is_expired(Lookup(cache.entries, key), now))
          =>
          (/\ hist'[t].result = [kind |-> "return", value |-> hist[t].result.value]
           /\ hist'[t].attempts = <<>>
           /\ hist'[t].waits = 0
           /\ pc'[t] = "idle"
           /\ ~fetch'[t].active
           /\ limiter' = limiter)]_vars

\* C18 as the specification words it: every HTTP GET issued through get_resource
\* carries a limit in 1..max_limit and an offset of 0 or more, whatever limit and
\* offset the caller passed.
C18_ParamRanges ==
    [][\A t \in Threads :
          (pc[t] = "dispatch" /\ Len(hist'[t].attempts) = Len(hist[t].attempts) + 1)
          =>
          (/\ fetch[t].params.limit \in 1..config.max_limit
           /\ fetch[t].params.offset >= 0)]_vars

\* ---------------------------------------------------------------------------
\* Claims about fetches made by several threads, checked under SpecMT
\* ---------------------------------------------------------------------------

\* C19 as the specification words it, for the fetches that have ended: a fetch
\* ends in exactly one terminal outcome, Return with a payload or Surface with a
\* typed error, after the cache lookup and then either a hit or one rate-limit
\* wait followed by at most max_retries + 1 dispatch steps.
C19_TerminalOutcome ==
    \A t \in Threads :
        /\ hist[t].waits <= 1
        /\ Len(hist[t].attempts) <= config.max_retries + 1
        /\ (~fetch[t].active /\ hist[t].call # <<>>) =>
              \/ hist[t].result.kind = "return" /\ hist[t].result.value \in Payloads
              \/ hist[t].result.kind = "raise" /\ hist[t].result.value \in ErrorNames

\* ---------------------------------------------------------------------------
\* Claims about the counters and the statistics, checked under SpecStats
\* ---------------------------------------------------------------------------

\* this step is a Cache.get call
GetStep == done'.gets = done.gets + 1

\* C21: every Cache.get increments exactly one counter by one: hits if the key is
\* present and unexpired, and the entry becomes the most recently used; misses if
\* the key is absent or present but expired, and an expired entry is removed; the
\* other entries stay. Set and stats change neither counter, so hits + misses is
\* the number of gets since construction or the last clear.
C21_HitMissAccounting ==
    /\ [](cache.hits + cache.misses = done.gets)
    /\ [][/\ GetStep =>
               LET k == lastOp'.key IN
               IF HasKey(cache.entries, k) /\ ~(now > Lookup(cache.entries, k).expiry)
               THEN /\ cache'.hits = cache.hits + 1
                    /\ cache'.misses = cache.misses
                    /\ cache'.entries[Len(cache'.entries)] = Lookup(cache.entries, k)
                    /\ DelKey(cache'.entries, k) = DelKey(cache.entries, k)
                    /\ lastOp'.result = Lookup(cache.entries, k).value
               ELSE /\ cache'.misses = cache.misses + 1
                    /\ cache'.hits = cache.hits
                    /\ cache'.entries = DelKey(cache.entries, k)
                    /\ lastOp'.result = None
          /\ lastOp'.op \in {"set", "stats"} =>
               /\ cache'.hits = cache.hits
               /\ cache'.misses = cache.misses]_vars

\* after a hit and a miss, a get found its key expired, removed it and counted a
\* second miss, while another entry stayed stored
C21_Witness ==
    /\ lastOp.op = "get"
    /\ lastOp.result = None
    /\ written[lastOp.key].state = "lapsed"
    /\ ~HasKey(cache.entries, lastOp.key)
    /\ cache.entries # <<>>
    /\ cache.hits >= 1
    /\ cache.misses >= 2

\* ---------------------------------------------------------------------------
\* More claims about the cache, checked under SpecCache
\* ---------------------------------------------------------------------------

\* C22: after Cache.clear the cache has no entries and hits = misses = 0, and the
\* history holds no written key; a get that follows the clear, of whatever key,
\* returns absent and counts the first miss; no call changes max_size or
\* default_ttl.
C22_ClearResets ==
    /\ [](lastOp.op = "clear" =>
             /\ cache.entries = <<>>
             /\ cache.hits = 0
             /\ cache.misses = 0
             /\ \A k \in Keys : written[k].state = "absent")
    /\ [][/\ cache'.max_size = cache.max_size
          /\ cache'.default_ttl = cache.default_ttl
          /\ (lastOp.op = "clear" /\ GetStep) =>
                /\ lastOp'.result = None
                /\ cache'.hits = 0
                /\ cache'.misses = 1
                /\ cache'.entries = <<>>]_vars

\* a clear has just removed the entries of a full cache of two or more entries
C22_Witness ==
    /\ lastOp.op = "clear"
    /\ Cardinality(lastOp.evicted) >= 2
    /\ Cardinality(lastOp.evicted) = cache.max_size
    /\ cache.entries = <<>>

\* ---------------------------------------------------------------------------
\* Claims about the statistics, checked under SpecStats
\* ---------------------------------------------------------------------------

\* C25: an entry whose TTL has elapsed leaves the cache only in a get of its own
\* key, in a set of its own key that replaces it, in a set of a new key into a
\* cache holding max_size entries of which it is the least recently used, or in a
\* clear; the passage of time removes nothing, and a set keeps every entry other
\* than the one of its key and than the least recently used one, expired or not.
C25_LazyExpiry ==
    [][/\ \A i \in 1..Len(cache.entries) :
             LET e == cache.entries[i] IN
             (now > e.expiry /\ e \notin EntrySet(cache'.entries)) =>
                 \/ GetStep /\ lastOp'.key = e.key
                 \/ lastOp'.op = "set" /\ lastOp'.key = e.key
                 \/ /\ lastOp'.op = "set"
                    /\ ~HasKey(cache.entries, lastOp'.key)
                    /\ Len(cache.entries) >= cache.max_size
                    /\ i = 1
                 \/ lastOp'.op = "clear"
       /\ (lastOp'.op = "set" /\ now' = now) =>
             \A i \in 2..Len(cache.entries) :
                 cache.entries[i].key # lastOp'.key =>
                     cache.entries[i] \in EntrySet(cache'.entries)
       /\ now' # now => cache' = cache]_vars

\* a set into a full cache has just evicted an entry that had not expired, while
\* an entry that has expired is still stored
C25_Witness ==
    /\ lastOp.op = "set"
    /\ lastOp.fresh # {}
    /\ Len(cache.entries) = cache.max_size
    /\ \E i \in 1..Len(cache.entries) :
          /\ now > cache.entries[i].expiry
          /\ cache.entries[i].key # lastOp.key

\* C30 as the specification implies it: every Cache.set call, whatever max_size
\* and the contents of the cache, raises nothing and leaves its key stored with
\* the value given.
C30_SetNeverFails ==
    [][(lastOp'.op = "set" /\ now' = now) =>
          LET k == lastOp'.key IN
          /\ lastOp'.raised = None
          /\ HasKey(cache'.entries, k)
          /\ written'[k].state = "stored"
          /\ Lookup(cache'.entries, k).value = written'[k].value]_vars

\* the thread is suspended in time.sleep of the rate limiter, in the backoff sleep
\* between two attempts, or in an HTTP call
Suspended(t) == pc[t] \in {"sleep", "backoff", "dispatch"}

\* the thread can take the next step of the Cache method it is in
CanGoOn(t) ==
    ENABLED (\/ GetLookup(t) \/ GetCount(t)
             \/ SetEvict(t) \/ SetInsert(t)
             \/ ClearEntries(t) \/ ClearCounters(t)
             \/ Stats(t)
             \/ Release(t) \/ FetchRelease(t))

\* C28: no thread holds the cache lock while it is suspended in the rate
\* limiter's sleep, in the backoff sleep or in an HTTP call (the limiter has no
\* lock); the thread that holds the lock is inside a Cache method and its next
\* step waits for nothing, so a Cache call of another thread is never held up by
\* a suspended thread.
C28_NoLockWhileBlocked ==
    /\ \A t \in Threads : Suspended(t) => lock # t
    /\ \A t \in Threads : lock = t => (pc[t] \in BodyStates /\ CanGoOn(t))
    /\ \A t \in Threads :
          (pc[t] = "acquire" /\ ~ENABLED WithLock(t)) =>
              \E u \in Threads \ {t} : lock = u /\ ~Suspended(u) /\ CanGoOn(u)

\* one thread sleeps between two attempts of its fetch while the other one,
\* which called cache.set, holds the lock and is about to return
C28_Witness ==
    \E t, u \in Threads :
        /\ pc[t] = "backoff"
        /\ now < wake[t]
        /\ lock = u
        /\ pc[u] = "release"
        /\ ~fetch[u].active
        /\ call[u].name = "set"
        /\ call[u].raised = None

\* what a stats call reports beside the hit rate, and what it leaves alone
StatsReport ==
    /\ [](lastOp.op = "stats" =>
             /\ lastOp.report.size = Len(cache.entries)
             /\ lastOp.report.max_size = cache.max_size
             /\ lastOp.report.hits = cache.hits
             /\ lastOp.report.misses = cache.misses)
    /\ [][(lastOp'.op = "stats" /\ now' = now) =>
             UNCHANGED <<cache, recency, written, done>>]_vars

\* C24 as the specification words it: stats returns the number of entries,
\* max_size, the hits and misses counters and a hit rate equal to
\* hits / (hits + misses), 0 when no get has occurred since construction or the
\* last clear, and modifies no cache state. The reported rate counts hundredths
\* of a percent, so a rate of 1 is 10000.
C24_AsStated ==
    /\ StatsReport
    /\ [](lastOp.op = "stats" =>
             IF cache.hits + cache.misses = 0
             THEN lastOp.report.hit_rate = 0
             ELSE lastOp.report.hit_rate * (cache.hits + cache.misses)
                     = cache.hits * 10000)

\* C24, amended: the same, with the hit rate reported as the percentage
\* 100 * hits / (hits + misses) rounded to two decimals: the number of hundredths
\* of a percent nearest to it, which is within half a hundredth of it.
C24_StatsReport ==
    /\ StatsReport
    /\ [](lastOp.op = "stats" =>
             LET total == cache.hits + cache.misses
                 error == lastOp.report.hit_rate * total - cache.hits * 10000
             IN IF total = 0
                THEN lastOp.report.hit_rate = 0
                ELSE /\ 2 * error <= total
                     /\ 2 * error > -total
                     /\ lastOp.report.hit_rate \in 0..10000)

\* stats reported two hits and a miss, a rate of 66.67%, with an entry stored
C24_Witness ==
    /\ lastOp.op = "stats"
    /\ lastOp.report.hits = 2
    /\ lastOp.report.misses = 1
    /\ lastOp.report.hit_rate = 6667
    /\ lastOp.report.size >= 1

\* ---------------------------------------------------------------------------
\* Claims about the cache keys, checked under SpecKeys
\* ---------------------------------------------------------------------------

\* the parameter mapping: names with their values, whatever the order of insertion
\* at the top level and inside a value that is itself a mapping
MappingOf(kwargs) ==
    {<<kwargs[i][1],
       [type |-> kwargs[i][2].type, text |-> kwargs[i][2].text,
        items |-> {kwargs[i][2].items[j] : j \in 1..Len(kwargs[i][2].items)}]>> :
        i \in 1..Len(kwargs)}

\* C23: Cache._make_key returns the same key for the same resource id and the same
\* parameter mapping whatever the order in which the parameters were inserted, and
\* different keys when the resource id or any parameter name or value differs.
C23_KeyDeterminism ==
    \A i, j \in 1..Len(made) :
        made[i].key = made[j].key
            <=> /\ made[i].resource_id = made[j].resource_id
                /\ MappingOf(made[i].kwargs) = MappingOf(made[j].kwargs)

\* two calls with the same two parameters inserted in different orders, one of
\* them a mapping whose own items were inserted in different orders, got one key
C23_Witness ==
    /\ Len(made) = 2
    /\ made[1].key = made[2].key
    /\ Len(made[1].kwargs) = 2
    /\ made[1].kwargs[1][1] # made[2].kwargs[1][1]
    /\ \E i, j \in 1..2 :
          /\ made[1].kwargs[i][1] = made[2].kwargs[j][1]
          /\ made[1].kwargs[i][2] # made[2].kwargs[j][2]

\* ---------------------------------------------------------------------------
\* Claims about the state of the rate limiter, checked under SpecLimiter
\* ---------------------------------------------------------------------------

\* C31: with one caller, after every return of wait_if_needed (and until the next
\* call begins) the recorded timestamps are not empty, are in non-decreasing order, are at most max_calls,
\* and end with the timestamp of the call just admitted.
C31_LimiterStateBound ==
    /\ []((Inside = {} /\ admitted # <<>>) =>
             /\ limiter.calls # <<>>
             /\ \A i, j \in 1..Len(limiter.calls) :
                   i <= j => limiter.calls[i] <= limiter.calls[j]
             /\ Len(limiter.calls) <= limiter.max_calls
             /\ limiter.calls[Len(limiter.calls)] = admitted[Len(admitted)])
    /\ [][\A t \in Threads :
             Leaves(t, "append") =>
                /\ pc'[t] = "idle"
                /\ Len(limiter'.calls) \in 1..limiter.max_calls
                /\ limiter'.calls[Len(limiter'.calls)] = now
                /\ admitted'[Len(admitted')] = now]_vars

\* a call has returned with max_calls timestamps recorded, more than one of them
\* and not all of the same instant
C31_Witness ==
    /\ pc["t1"] = "idle"
    /\ Len(limiter.calls) = limiter.max_calls
    /\ Len(limiter.calls) >= 2
    /\ limiter.calls[1] < limiter.calls[Len(limiter.calls)]
    /\ limiter.calls[Len(limiter.calls)] = admitted[Len(admitted)]

\* C32: with one caller, whenever wait_if_needed finds max_calls or more
\* timestamps after pruning, the computed sleep time is greater than zero and at
\* most `period`: the method then always sleeps and resets, and the sleep it asks
\* for is never longer than `period`.
C32_SleepTimeRange ==
    /\ [](\A t \in Threads :
             pc[t] = "compute" =>
                /\ limiter.calls # <<>>
                /\ sleep_time(limiter, tnow[t]) > 0
                /\ sleep_time(limiter, tnow[t]) <= limiter.period)
    /\ [][\A t \in Threads :
             /\ (Leaves(t, "check") /\ Len(limiter.calls) >= limiter.max_calls) =>
                   pc'[t] = "compute"
             /\ Leaves(t, "compute") =>
                   /\ pc'[t] = "sleep"
                   /\ wake'[t] - now = sleep_time(limiter, tnow[t])
                   /\ wake'[t] - now \in 1..limiter.period
             /\ Leaves(t, "sleep") => pc'[t] = "reset"]_vars

\* a call that found the limit reached some time after the oldest recorded call
\* sleeps for less than `period`; the recorded timestamps are still there
C32_Witness ==
    /\ pc["t1"] = "sleep"
    /\ Len(limiter.calls) >= limiter.max_calls
    /\ sleep_time(limiter, tnow["t1"]) >= 1
    /\ sleep_time(limiter, tnow["t1"]) < limiter.period
    /\ wake["t1"] > now

====
